---- MODULE Spec2Model ----
(***************************************************************************)
(* Timeline & chapter-blend engine of the "seeds" cinematic sequence.      *)
(*                                                                         *)
(* Time is counted in tenths of a second: every chapter duration is a      *)
(* whole number of tenths and the frame delta cap of 0.1 s is one tenth.   *)
(* Weights, local progresses and log-scales are exact rationals [n, d] in  *)
(* lowest terms.  A scale is held as its base-10 logarithm (the chapter    *)
(* table only holds powers of ten, and the driver blends in log space).    *)
(***************************************************************************)
EXTENDS Integers, Sequences, FiniteSets, TLC

VARIABLES
    store,               \* the zustand store's state object
    lastNarrativeIndex,  \* TransitionController: useRef(-1)
    prevNarrativeText,   \* TransitionController: useRef('')
    chapterStartTime,    \* discrete-chapter TransitionController: useRef(0)
    smoothPos,           \* CinematicCamera: useRef(Vector3(0, 5, 80))
    smoothTarget,        \* CinematicCamera: useRef(Vector3(0, 0, 0))
    smoothFov,           \* CinematicCamera: useRef(60)
    targetPos,           \* CinematicCamera: useRef(Vector3()), target handed to the smoother
    timers,              \* pending setTimeout callbacks of nextChapter
    notified,            \* what observers were handed: the store snapshots notified by
                         \* the last operation, or the calls recorded so far
    lastOp,              \* the last operation performed, with its argument
    frames,              \* rendered frames so far (camera specification only)
    hud                  \* HUD: useSmoothValue's value, smoothedRef and smoothingFactor;
                         \* NarrativeDisplay's displayedText, opacity and timers

vars == << store, lastNarrativeIndex, prevNarrativeText, chapterStartTime, smoothPos, smoothTarget,
           smoothFov, targetPos, timers, notified, lastOp, frames, hud >>

(***************************************************************************)
(* Bounds of the model.                                                    *)
(***************************************************************************)
\* largest frame delta the host reports, in tenths of a second
MaxDelta == 2
\* frames rendered in the camera specification
MaxFrames == 3

(***************************************************************************)
(* Exact rational arithmetic.                                              *)
(***************************************************************************)
RECURSIVE GCD(_, _)
GCD(a, b) == IF b = 0 THEN a ELSE GCD(b, a % b)

Abs(x) == IF x < 0 THEN -x ELSE x

\* n/d in lowest terms, d > 0
Rat(n, d) ==
    CHOOSE out \in
        { [n |-> q[4] * (q[1] \div q[3]), d |-> q[4] * (q[2] \div q[3])] :
            q \in { << p[1], p[2], GCD(Abs(p[1]), Abs(p[2])), IF p[2] < 0 THEN -1 ELSE 1 >> :
                      p \in { << n, d >> } } } : TRUE

RInt(k) == [n |-> k, d |-> 1]
R0 == RInt(0)
R1 == RInt(1)

\* (the operands of each operation are bound to their values once, before use)
RAdd(a, b) ==
    CHOOSE out \in
        { Rat(q[1].n * (q[2].d \div q[3]) + q[2].n * (q[1].d \div q[3]),
              (q[1].d \div q[3]) * q[2].d) :
            q \in { << p[1], p[2], GCD(p[1].d, p[2].d) >> : p \in { << a, b >> } } } : TRUE

RNeg(a) == CHOOSE out \in { [n |-> -p.n, d |-> p.d] : p \in { a } } : TRUE
RSub(a, b) == RAdd(a, RNeg(b))

RMul(a, b) ==
    CHOOSE out \in
        { IF q[1].n = 0 \/ q[2].n = 0 THEN R0
          ELSE Rat((q[1].n \div q[3]) * (q[2].n \div q[4]),
                   (q[1].d \div q[4]) * (q[2].d \div q[3])) :
            q \in { << p[1], p[2], GCD(Abs(p[1].n), p[2].d), GCD(Abs(p[2].n), p[1].d) >> :
                      p \in { << a, b >> } } } : TRUE

\* b # 0
RDiv(a, b) == CHOOSE out \in { RMul(a, Rat(p.d, p.n)) : p \in { b } } : TRUE

\* sign of an/ad - bn/bd for positive denominators, by the Euclidean expansion
\* (no cross product, so no overflow)
RECURSIVE Cmp(_, _, _, _)
Cmp(an, ad, bn, bd) ==
    CHOOSE out \in
        { IF q.qa # q.qb THEN (IF q.qa < q.qb THEN -1 ELSE 1)
          ELSE IF q.ra = 0 /\ q.rb = 0 THEN 0
          ELSE IF q.ra = 0 THEN -1
          ELSE IF q.rb = 0 THEN 1
          ELSE Cmp(q.bd, q.rb, q.ad, q.ra) :
            q \in { [qa |-> p[1] \div p[2], qb |-> p[3] \div p[4],
                     ra |-> p[1] - (p[1] \div p[2]) * p[2],
                     rb |-> p[3] - (p[3] \div p[4]) * p[4],
                     ad |-> p[2], bd |-> p[4]] :
                      p \in { << an, ad, bn, bd >> } } } : TRUE

RCmp(a, b) == CHOOSE out \in { Cmp(p[1].n, p[1].d, p[2].n, p[2].d) : p \in { << a, b >> } } : TRUE

RLt(a, b) == RCmp(a, b) < 0
RLe(a, b) == RCmp(a, b) <= 0
RMax(a, b) == CHOOSE out \in { IF RLt(p[1], p[2]) THEN p[2] ELSE p[1] : p \in { << a, b >> } } : TRUE
RMin(a, b) == CHOOSE out \in { IF RLt(p[2], p[1]) THEN p[2] ELSE p[1] : p \in { << a, b >> } } : TRUE

(***************************************************************************)
(* Chapter table (store.js CHAPTERS).  duration is in tenths of a second, *)
(* logStart/logEnd are log10 of scaleStart/scaleEnd.                       *)
(***************************************************************************)
CHAPTERS == <<
    [id |-> 1,  duration |-> 40, logStart |-> 0,   logEnd |-> 7],
    [id |-> 2,  duration |-> 60, logStart |-> 7,   logEnd |-> 13],
    [id |-> 3,  duration |-> 60, logStart |-> 13,  logEnd |-> 17],
    [id |-> 4,  duration |-> 60, logStart |-> 17,  logEnd |-> 21],
    [id |-> 5,  duration |-> 75, logStart |-> 21,  logEnd |-> 27],
    [id |-> 6,  duration |-> 50, logStart |-> 27,  logEnd |-> 27],
    [id |-> 7,  duration |-> 75, logStart |-> 27,  logEnd |-> 3],
    [id |-> 8,  duration |-> 80, logStart |-> 3,   logEnd |-> -10],
    [id |-> 9,  duration |-> 80, logStart |-> -10, logEnd |-> -10],
    [id |-> 10, duration |-> 60, logStart |-> -10, logEnd |-> -10] >>

ChapterIds == 1..Len(CHAPTERS)

Duration(c) == CHAPTERS[c].duration

\* derived offsets: start = sum of the prior durations, end = start + duration
RECURSIVE ChapterStart(_)
ChapterStart(c) == IF c = 1 THEN 0 ELSE ChapterStart(c - 1) + Duration(c - 1)

ChapterEnd(c) == ChapterStart(c) + Duration(c)

TOTAL_DURATION == ChapterEnd(Len(CHAPTERS))


(***************************************************************************)
(* Weight function (TransitionController.jsx, global-time variant).       *)
(***************************************************************************)
BLEND_WINDOW == [n |-> 9, d |-> 50]

\* smoothstep t*t*(3 - 2t)
FADE_CURVE(t) == RMul(RMul(t, t), RSub(RInt(3), RMul(RInt(2), t)))

Min(a, b) == IF a < b THEN a ELSE b
Max(a, b) == IF a > b THEN a ELSE b

\* Math.max(min, Math.min(max, v))
clamp(v, min, max) == Max(min, Min(max, v))

\* a faulty variant: the ratio without the guards before start and after end
getLocalProgress_Unguarded(c, globalTime) ==
    Rat(globalTime - ChapterStart(c), Duration(c))

getLocalProgress(c, globalTime) ==
    IF globalTime < ChapterStart(c) THEN R0
    ELSE IF globalTime >= ChapterEnd(c) THEN R1
    ELSE Rat(globalTime - ChapterStart(c), Duration(c))

computeChapterWeight(localProgress) ==
    LET bw == BLEND_WINDOW
        fadeIn == IF RLt(localProgress, bw)
                  THEN FADE_CURVE(RDiv(localProgress, bw))
                  ELSE R1
        fadeOut == IF RLt(RSub(R1, bw), localProgress)
                   THEN FADE_CURVE(RDiv(RSub(R1, localProgress), bw))
                   ELSE R1
    IN  RMul(fadeIn, fadeOut)

\* the loop over CHAPTERS: a weight only for a chapter strictly inside its window
RawWeight(c, globalTime) ==
    LET localProgress == getLocalProgress(c, globalTime)
    IN  IF RLt(R0, localProgress) /\ RLt(localProgress, R1)
        THEN computeChapterWeight(localProgress)
        ELSE R0

RECURSIVE SumWeights(_, _)
SumWeights(w, k) == IF k = 0 THEN R0 ELSE RAdd(SumWeights(w, k - 1), w[k])

\* "edge case at very start": the window of chapter 1's ramp-in
\* globalTime < CHAPTERS[0].duration * BLEND_WINDOW
InFirstWindow(globalTime) ==
    RLt(RInt(globalTime), RMul(RInt(Duration(1)), BLEND_WINDOW))

FirstChapterWeight(w1, globalTime) ==
    RMax(w1, FADE_CURVE(RDiv(RInt(globalTime), RMul(RInt(Duration(1)), BLEND_WINDOW))))

\* a faulty variant: chapter 10 ramps out like every other chapter
LastChapterWeight_RampOut(globalTime) ==
    computeChapterWeight(getLocalProgress(10, globalTime))

\* "edge case at very end": chapter 10's weight once globalTime is in its window
LastChapterWeight(globalTime) ==
    LET ch10Progress == getLocalProgress(10, globalTime)
    IN  IF RLt(ch10Progress, BLEND_WINDOW)
        THEN FADE_CURVE(RDiv(ch10Progress, BLEND_WINDOW))
        ELSE R1

\* a faulty variant: the weights are returned as accumulated
Normalize_Skipped(w, sumWeights) == w

Normalize(w, sumWeights) ==
    IF RLt(R0, sumWeights)
    THEN [c \in ChapterIds |-> RDiv(w[c], sumWeights)]
    ELSE w

\* the weights after the first-chapter and last-chapter edge cases, with their sum
EdgeCases(raw, globalTime) ==
    LET sum0 == SumWeights(raw, Len(CHAPTERS))
        first == InFirstWindow(globalTime)
        w1 == IF first
              THEN [raw EXCEPT ![1] = FirstChapterWeight(raw[1], globalTime)]
              ELSE raw
        sum1 == IF first THEN w1[1] ELSE sum0
        last == globalTime >= ChapterStart(10)
        w2 == IF last THEN [w1 EXCEPT ![10] = LastChapterWeight(globalTime)] ELSE w1
        sum2 == IF last THEN w2[10] ELSE sum1
    IN  [w |-> w2, sumWeights |-> sum2]

\* a faulty variant: the weights object outlives the call, and a weight is only
\* raised over what the previous call left in it
computeAllWeights_SharedObject(globalTime) ==
    CHOOSE out \in
        { IF notified = << >> THEN o
          ELSE [o EXCEPT !.weights =
                    [c \in ChapterIds |->
                        RMax(o.weights[c], notified[Len(notified)].out.weights[c])]] :
            o \in { [weights |-> [c \in ChapterIds |-> RawWeight(c, globalTime)],
                     localProgresses |->
                         [c \in ChapterIds |-> getLocalProgress(c, globalTime)]] } } : TRUE

\* (each stage is bound to its value before the next one reads it)
computeAllWeights(globalTime) ==
    CHOOSE out \in
        { [weights |-> Normalize(e.w, e.sumWeights),
           localProgresses |-> [c \in ChapterIds |-> getLocalProgress(c, globalTime)]] :
          e \in { EdgeCases(raw, globalTime) :
                    raw \in { [c \in ChapterIds |-> RawWeight(c, globalTime)] } } } : TRUE

(***************************************************************************)
(* Narrative cue table: absolute time (tenths of a second) and text.       *)
(* Built from the per-chapter script NARRATIVE of store.js, each entry     *)
(* offset by its chapter's start.                                          *)
(***************************************************************************)
NARRATIVE == <<
    << [time |-> 0,  text |-> "You lift off from Earth..."] >>,
    << [time |-> 0,  text |-> "Past the Moon and planets..."] >>,
    << [time |-> 0,  text |-> "Until the Sun is a pinprick."] >>,
    << [time |-> 0,  text |-> "The Milky Way shrinks to a smear..."] >>,
    << [time |-> 0,  text |-> "Then fades into the cosmic web."] >>,
    << [time |-> 0,  text |-> "Now, at random:"],
       [time |-> 20, text |-> "You choose one atom."] >>,
    << [time |-> 0,  text |-> "You pick a random planet..."] >>,
    << [time |-> 0,  text |-> "... falling into its world of stone."],
       [time |-> 30, text |-> "Through molecules..."] >>,
    << [time |-> 0,  text |-> "Until that single atom fills the frame."],
       [time |-> 30, text |-> "This is why your bitcoin is secure."] >>,
    << [time |-> 0,  text |-> "Because this atom is impossible to find."],
       [time |-> 30, text |-> "Unguessable. Yours alone."] >> >>

RECURSIVE CuesFrom(_)
CuesFrom(c) ==
    IF c > Len(NARRATIVE) THEN << >>
    ELSE [i \in 1..Len(NARRATIVE[c]) |->
             [time |-> ChapterStart(c) + NARRATIVE[c][i].time,
              text |-> NARRATIVE[c][i].text]] \o CuesFrom(c + 1)

\* 1-based here; the index the driver keeps is 0-based (-1: no cue)
NARRATIVE_CUES == CuesFrom(1)

(***************************************************************************)
(* The store (store.js useStore), with the timeline fields the global-time *)
(* driver reads and writes.                                                *)
(***************************************************************************)
SCALE_CONTEXTS == <<
    [name |-> "HUMAN",        lo |-> -2,  hi |-> 4],
    [name |-> "PLANETARY",    lo |-> 4,   hi |-> 9],
    [name |-> "SOLAR",        lo |-> 9,   hi |-> 14],
    [name |-> "INTERSTELLAR", lo |-> 14,  hi |-> 18],
    [name |-> "GALACTIC",     lo |-> 18,  hi |-> 22],
    [name |-> "COSMIC",       lo |-> 22,  hi |-> 27],
    [name |-> "MOLECULAR",    lo |-> -7,  hi |-> -2],
    [name |-> "ATOMIC",       lo |-> -12, hi |-> -7] >>

ZeroMap == [c \in ChapterIds |-> R0]

\* the timeline fields at construction
InitialTimeline ==
    [globalTime |-> 0, chapterWeights |-> ZeroMap, chapterLocalProgress |-> ZeroMap]

\* useStore's initial state; currentScale is log10 of the scale in meters
InitialStore ==
    [currentChapter |-> 1,
     chapterProgress |-> R0,
     totalProgress |-> R0,
     isPlaying |-> TRUE,
     isTransitioning |-> FALSE,
     currentScale |-> R0,
     scaleContext |-> "HUMAN",
     cameraPosition |-> <<0, 2, 10>>,
     cameraTarget |-> <<0, 0, 0>>,
     showHUD |-> TRUE,
     narrativeText |-> "",
     distanceTraveled |-> 0,
     globalTime |-> InitialTimeline.globalTime,
     chapterWeights |-> InitialTimeline.chapterWeights,
     chapterLocalProgress |-> InitialTimeline.chapterLocalProgress]

\* a faulty variant: the ends of a range are left out
RECURSIVE ContextFrom_Strict(_, _)
ContextFrom_Strict(scale, i) ==
    IF i > Len(SCALE_CONTEXTS) THEN "HUMAN"
    ELSE IF RLt(RInt(SCALE_CONTEXTS[i].lo), scale) /\ RLt(scale, RInt(SCALE_CONTEXTS[i].hi))
         THEN SCALE_CONTEXTS[i].name
         ELSE ContextFrom_Strict(scale, i + 1)

\* first context, in declaration order, whose range holds the scale; else HUMAN
RECURSIVE ContextFrom(_, _)
ContextFrom(scale, i) ==
    IF i > Len(SCALE_CONTEXTS) THEN "HUMAN"
    ELSE IF RLe(RInt(SCALE_CONTEXTS[i].lo), scale) /\ RLe(scale, RInt(SCALE_CONTEXTS[i].hi))
         THEN SCALE_CONTEXTS[i].name
         ELSE ContextFrom(scale, i + 1)

setScale(st, scale) ==
    [st EXCEPT !.currentScale = scale, !.scaleContext = ContextFrom(scale, 1)]

setNarrativeText(st, text) == [st EXCEPT !.narrativeText = text]

setIsPlaying(st, playing) == [st EXCEPT !.isPlaying = playing]

setChapter(st, chapter) == [st EXCEPT !.currentChapter = chapter, !.chapterProgress = R0]

\* sum of the durations of chapters 1..k
RECURSIVE DurationSum(_)
DurationSum(k) == IF k = 0 THEN 0 ELSE DurationSum(k - 1) + CHAPTERS[k].duration

\* chapterProgress, then totalProgress from the durations before the current chapter
setChapterProgress(st, progress) ==
    LET totalDurationBefore == DurationSum(st.currentChapter - 1)
        currentDuration == CHAPTERS[st.currentChapter].duration
        totalDuration == DurationSum(Len(CHAPTERS))
    IN  [st EXCEPT !.chapterProgress = progress,
                   !.totalProgress =
                       RDiv(RAdd(RInt(totalDurationBefore),
                                 RMul(progress, RInt(currentDuration))),
                            RInt(totalDuration))]

setDistanceTraveled(st, distance) == [st EXCEPT !.distanceTraveled = distance]

setCameraState(st, position, target) ==
    [st EXCEPT !.cameraPosition = position, !.cameraTarget = target]

setIsTransitioning(st, transitioning) == [st EXCEPT !.isTransitioning = transitioning]

\* the store after nextChapter(); it also schedules the 1000 ms timeout
nextChapter(st) ==
    IF st.currentChapter < Len(CHAPTERS)
    THEN [st EXCEPT !.isTransitioning = TRUE,
                    !.currentChapter = st.currentChapter + 1,
                    !.chapterProgress = R0]
    ELSE st

skipChapter(st) ==
    IF st.currentChapter < Len(CHAPTERS)
    THEN [st EXCEPT !.currentChapter = st.currentChapter + 1, !.chapterProgress = R0]
    ELSE st

\* the fields reset() names
resetFields(st) ==
    [st EXCEPT !.currentChapter = 1,
               !.chapterProgress = R0,
               !.totalProgress = R0,
               !.isPlaying = TRUE,
               !.currentScale = R0,
               !.scaleContext = "HUMAN",
               !.narrativeText = "",
               !.distanceTraveled = 0]

\* the timeline's part of reset(): back to globalTime = 0 and the initial maps
resetTimeline(st) ==
    [st EXCEPT !.globalTime = InitialTimeline.globalTime,
               !.chapterWeights = InitialTimeline.chapterWeights,
               !.chapterLocalProgress = InitialTimeline.chapterLocalProgress]

reset(st) == resetTimeline(resetFields(st))

\* a faulty variant: advances without clamping
advanceTime_NoClamp(st, delta) ==
    [st EXCEPT !.globalTime = st.globalTime + delta]

\* advance by delta and clamp to [0, TOTAL_DURATION]
advanceTime(st, delta) ==
    [st EXCEPT !.globalTime = clamp(st.globalTime + delta, 0, TOTAL_DURATION)]

setGlobalTime(st, time) ==
    [st EXCEPT !.globalTime = clamp(time, 0, TOTAL_DURATION)]

\* progress p is a rational; p * TOTAL_DURATION is on the grid for the p drawn
setProgress(st, p) == setGlobalTime(st, (p.n * TOTAL_DURATION) \div p.d)

skipToChapter(st, id) == [st EXCEPT !.globalTime = ChapterStart(id)]

\* skipToEnd(): chapter 10 at progress 0
skipToEndFields(st) == [st EXCEPT !.currentChapter = 10, !.chapterProgress = R0]

\* the timeline's part of skipToEnd(): the start of the last chapter
skipToEndTimeline(st) == [st EXCEPT !.globalTime = ChapterStart(Len(CHAPTERS))]

skipToEnd(st) == skipToEndTimeline(skipToEndFields(st))

setChapterWeights(st, weights) == [st EXCEPT !.chapterWeights = weights]

setChapterLocalProgress(st, lps) == [st EXCEPT !.chapterLocalProgress = lps]

(***************************************************************************)
(* Timeline driver: TransitionController's per-frame callback.            *)
(***************************************************************************)
\* weights at or below 0.001 do not contribute
Negligible == [n |-> 1, d |-> 1000]

\* a faulty variant: interpolates from logEnd instead of logStart
LogScale_FromEnd(c, localProgress) ==
    RAdd(RInt(CHAPTERS[c].logEnd),
         RMul(RInt(CHAPTERS[c].logEnd - CHAPTERS[c].logStart), localProgress))

\* a chapter's instantaneous log-scale: logStart + (logEnd - logStart) * localProgress
LogScale(c, localProgress) ==
    RAdd(RInt(CHAPTERS[c].logStart),
         RMul(RInt(CHAPTERS[c].logEnd - CHAPTERS[c].logStart), localProgress))

\* the scale loop over chapters 1..k: [blendedLogScale, totalWeight] accumulated
\* one pass of the loop body for chapter k on the sums acc
ScaleStep(acc, weight, localProgress, k) ==
    IF RLt(Negligible, weight)
    THEN [blendedLogScale |->
              RAdd(acc.blendedLogScale, RMul(LogScale(k, localProgress), weight)),
          totalWeight |-> RAdd(acc.totalWeight, weight)]
    ELSE acc

RECURSIVE ScaleLoop(_, _, _)
ScaleLoop(weights, localProgresses, k) ==
    IF k = 0 THEN [blendedLogScale |-> R0, totalWeight |-> R0]
    ELSE CHOOSE out \in
             { ScaleStep(acc, weights[k], localProgresses[k], k) :
               acc \in { ScaleLoop(weights, localProgresses, k - 1) } } : TRUE

\* a faulty variant: the sum is published without the totalWeight guard
PublishScale_Unguarded(st, acc) == setScale(st, acc.blendedLogScale)

\* the store after the scale blender: setScale(10^blended) when totalWeight > 0
PublishScale(st, acc) ==
    IF RLt(R0, acc.totalWeight)
    THEN setScale(st, RDiv(acc.blendedLogScale, acc.totalWeight))
    ELSE st

\* 0-based index of the latest cue with time <= currentTime, -1 when none
RECURSIVE CueIndex(_, _)
CueIndex(currentTime, i) ==
    IF i < 0 THEN -1
    ELSE IF currentTime >= NARRATIVE_CUES[i + 1].time THEN i
    ELSE CueIndex(currentTime, i - 1)

currentNarrativeIndex(currentTime) == CueIndex(currentTime, Len(NARRATIVE_CUES) - 1)

CueText(idx) == IF idx >= 0 THEN NARRATIVE_CUES[idx + 1].text ELSE ""

\* a faulty variant: the text is cleared only on the last instant
PastClearPoint_AtEnd(currentTime) == currentTime >= TOTAL_DURATION

\* currentTime > TOTAL_DURATION - 1
PastClearPoint(currentTime) == currentTime > TOTAL_DURATION - 10

\* a faulty variant: the delta is used as the host reports it
cappedDelta_Uncapped(delta) == delta

\* Math.min(delta, 0.1)
cappedDelta(delta) == Min(delta, 1)

\* What one run of the callback derives from currentTime alone: the weight
\* function's result, the scale loop's sums and the resolved cue index.
Derive(currentTime) ==
    CHOOSE out \in
        { [weights |-> r.weights,
           localProgresses |-> r.localProgresses,
           scale |-> ScaleLoop(r.weights, r.localProgresses, Len(CHAPTERS)),
           idx |-> currentNarrativeIndex(currentTime)] :
          r \in { computeAllWeights(currentTime) } } : TRUE

\* Derive, evaluated once for every time of the timeline
DeriveTable == [t \in 0..TOTAL_DURATION |-> Derive(t)]

Derived(currentTime) ==
    IF currentTime \in DOMAIN DeriveTable THEN DeriveTable[currentTime]
    ELSE Derive(currentTime)

\* a faulty variant: the callback never advances the time
Advance_Never(st, delta) == st

\* if (isPlaying) advanceTime(cappedDelta)
Advance(st, delta) == IF st.isPlaying THEN advanceTime(st, cappedDelta(delta)) ELSE st

\* setChapterWeights, setChapterLocalProgress and the scale blender, in order:
\* the store after each of the three
PublishDerived(s1, r) ==
    LET s2 == setChapterWeights(s1, r.weights)
        s3 == setChapterLocalProgress(s2, r.localProgresses)
    IN  [s2 |-> s2, s3 |-> s3, s4 |-> PublishScale(s3, r.scale)]

\* a faulty variant: the cue text is compared on every frame, whatever the index
NarrativeStep_LevelTriggered(s4, idx, currentTime, lastIdx, prevText) ==
    LET newText == CueText(idx)
        push == newText # prevText
        prev5 == IF push THEN newText ELSE prevText
        s5 == IF push THEN setNarrativeText(s4, newText) ELSE s4
        clear == PastClearPoint(currentTime) /\ prev5 # ""
        s6 == IF clear THEN setNarrativeText(s5, "") ELSE s5
    IN  [store |-> s6,
         lastNarrativeIndex |-> idx,
         prevNarrativeText |-> IF clear THEN "" ELSE prev5,
         notified |-> (IF push THEN << s5 >> ELSE << >>)
                      \o (IF clear THEN << s6 >> ELSE << >>)]

\* the narrative cue dispatch and the clear rule, from store s4
NarrativeStep(s4, idx, currentTime, lastIdx, prevText) ==
    LET changed == idx # lastIdx
        newText == CueText(idx)
        push == changed /\ newText # prevText
        prev5 == IF push THEN newText ELSE prevText
        s5 == IF push THEN setNarrativeText(s4, newText) ELSE s4
        clear == PastClearPoint(currentTime) /\ prev5 # ""
        s6 == IF clear THEN setNarrativeText(s5, "") ELSE s5
    IN  [store |-> s6,
         lastNarrativeIndex |-> IF changed THEN idx ELSE lastIdx,
         prevNarrativeText |-> IF clear THEN "" ELSE prev5,
         notified |-> (IF push THEN << s5 >> ELSE << >>)
                      \o (IF clear THEN << s6 >> ELSE << >>)]

\* One run of the callback, from store st and refs (lastIdx, prevText):
\* the store, the refs and the snapshots notified by each store action, in order.
TickFrom(st, s1, r, p, lastIdx, prevText) ==
    LET n == NarrativeStep(p.s4, r.idx, s1.globalTime, lastIdx, prevText)
    IN  [store |-> n.store,
         lastNarrativeIndex |-> n.lastNarrativeIndex,
         prevNarrativeText |-> n.prevNarrativeText,
         notified |-> (IF st.isPlaying THEN << s1 >> ELSE << >>)
                      \o << p.s2, p.s3 >>
                      \o (IF RLt(R0, r.scale.totalWeight) THEN << p.s4 >> ELSE << >>)
                      \o n.notified]

TickDerived(st, s1, r, lastIdx, prevText) ==
    CHOOSE out \in { TickFrom(st, s1, r, p, lastIdx, prevText) :
                     p \in { PublishDerived(s1, r) } } : TRUE

TickAdvanced(st, s1, lastIdx, prevText) ==
    CHOOSE out \in { TickDerived(st, s1, r, lastIdx, prevText) :
                     r \in { Derived(s1.globalTime) } } : TRUE

TickResult(st, lastIdx, prevText, delta) ==
    CHOOSE out \in { TickAdvanced(st, s1, lastIdx, prevText) :
                     s1 \in { Advance(st, delta) } } : TRUE

\* frame deltas the host reports: none, the cap (0.1 s), above the cap
Deltas == 0..MaxDelta

(***************************************************************************)
(* CinematicCamera.  Positions and fov are kept in hundredths of a unit,   *)
(* damping in tenths, micro-motion in thousandths; an eased progress has   *)
(* four decimal digits.  Quotients are cut toward zero.                    *)
(***************************************************************************)
TruncDiv(a, b) == IF a >= 0 THEN a \div b ELSE -((-a) \div b)

RTrunc(r) == TruncDiv(r.n, r.d)

\* the first k decimal digits of rem / d, for 0 <= rem < d
RECURSIVE Frac(_, _, _)
Frac(rem, d, k) ==
    IF k = 0 THEN 0
    ELSE LET q == (rem * 10) \div d
             rest == Frac((rem * 10) % d, d, k - 1)
         IN  q * (10 ^ (k - 1)) + rest

\* a rational r >= 0 in ten-thousandths
ToFixed(r) == (r.n \div r.d) * 10000 + Frac(r.n % r.d, r.d, 4)

easeOutQuart(t) ==
    LET u == RSub(R1, t)
        u2 == RMul(u, u)
    IN  RSub(R1, RMul(u2, u2))

CAMERA_PATHS == <<
    [p0 |-> [pos |-> <<0, 500, 8000>>, target |-> <<0, 0, 0>>, fov |-> 6000],
     p1 |-> [pos |-> <<0, 8000, 30000>>, target |-> <<0, 0, 0>>, fov |-> 5500],
     damping |-> 30, microMotion |-> 150],
    [p0 |-> [pos |-> <<0, 8000, 30000>>, target |-> <<0, 0, 0>>, fov |-> 5500],
     p1 |-> [pos |-> <<0, 16000, 50000>>, target |-> <<0, 0, 0>>, fov |-> 5000],
     damping |-> 25, microMotion |-> 100],
    [p0 |-> [pos |-> <<0, 16000, 50000>>, target |-> <<0, 0, 0>>, fov |-> 5000],
     p1 |-> [pos |-> <<0, 28000, 70000>>, target |-> <<0, 0, 0>>, fov |-> 4500],
     damping |-> 20, microMotion |-> 50],
    [p0 |-> [pos |-> <<0, 28000, 70000>>, target |-> <<0, 0, 0>>, fov |-> 4500],
     p1 |-> [pos |-> <<0, 42000, 85000>>, target |-> <<0, 0, 0>>, fov |-> 5000],
     damping |-> 18, microMotion |-> 20],
    [p0 |-> [pos |-> <<0, 42000, 85000>>, target |-> <<0, 0, 0>>, fov |-> 5000],
     p1 |-> [pos |-> <<0, 53000, 105000>>, target |-> <<0, 0, 0>>, fov |-> 5500],
     damping |-> 15, microMotion |-> 10],
    [p0 |-> [pos |-> <<0, 53000, 105000>>, target |-> <<0, 0, 0>>, fov |-> 5500],
     p1 |-> [pos |-> <<0, 49000, 95000>>, target |-> <<0, 0, 0>>, fov |-> 4500],
     damping |-> 12, microMotion |-> 5],
    [p0 |-> [pos |-> <<0, 49000, 95000>>, target |-> <<0, 0, 0>>, fov |-> 4500],
     p1 |-> [pos |-> <<0, 3000, 6000>>, target |-> <<0, 0, 0>>, fov |-> 5500],
     damping |-> 25, microMotion |-> 80],
    [p0 |-> [pos |-> <<0, 3000, 6000>>, target |-> <<0, 0, 0>>, fov |-> 5500],
     p1 |-> [pos |-> <<0, 80, 300>>, target |-> <<0, 0, 0>>, fov |-> 4500],
     damping |-> 30, microMotion |-> 200],
    [p0 |-> [pos |-> <<0, 80, 300>>, target |-> <<0, 0, 0>>, fov |-> 4500],
     p1 |-> [pos |-> <<200, 80, 200>>, target |-> <<0, 0, 0>>, fov |-> 4000],
     damping |-> 40, microMotion |-> 20],
    [p0 |-> [pos |-> <<200, 80, 200>>, target |-> <<0, 0, 0>>, fov |-> 4000],
     p1 |-> [pos |-> <<30, 40, 150>>, target |-> <<0, 0, 0>>, fov |-> 3500],
     damping |-> 50, microMotion |-> 0] >>

\* a + (b - a) * t for t in ten-thousandths
Mix(a, b, t) == a + TruncDiv((b - a) * t, 10000)

MixVector(a, b, t) == [i \in 1..3 |-> Mix(a[i], b[i], t)]

samplePathAt(path, t) ==
    [pos |-> MixVector(path.p0.pos, path.p1.pos, t),
     target |-> MixVector(path.p0.target, path.p1.target, t),
     fov |-> Mix(path.p0.fov, path.p1.fov, t),
     damping |-> path.damping,
     microMotion |-> path.microMotion]

samplePath(chapterId, localProgress) ==
    CHOOSE out \in { samplePathAt(CAMERA_PATHS[chapterId], t) :
                       t \in { ToFixed(easeOutQuart(localProgress)) } } : TRUE

ZeroBlend ==
    [pos |-> <<R0, R0, R0>>, target |-> <<R0, R0, R0>>, fov |-> R0,
     damping |-> R0, microMotion |-> R0, totalWeight |-> R0]

AddWeighted(acc, x, weight) == [i \in 1..3 |-> RAdd(acc[i], RMul(RInt(x[i]), weight))]

\* one iteration of the loop over CHAPTERS, for a chapter that is not skipped
BlendSample(acc, sample, weight) ==
    [pos |-> AddWeighted(acc.pos, sample.pos, weight),
     target |-> AddWeighted(acc.target, sample.target, weight),
     fov |-> RAdd(acc.fov, RMul(RInt(sample.fov), weight)),
     damping |-> RAdd(acc.damping, RMul(RInt(sample.damping), weight)),
     microMotion |-> RAdd(acc.microMotion, RMul(RInt(sample.microMotion), weight)),
     totalWeight |-> RAdd(acc.totalWeight, weight)]

BlendStep(acc, weight, localProgress, k) ==
    IF RLt(weight, Negligible) THEN acc
    ELSE CHOOSE out \in { BlendSample(acc, sample, weight) :
                            sample \in { samplePath(k, localProgress) } } : TRUE

\* the loop over chapters 1..k
RECURSIVE BlendLoop(_, _, _)
BlendLoop(chapterWeights, chapterLocalProgress, k) ==
    IF k = 0 THEN ZeroBlend
    ELSE CHOOSE out \in
             { BlendStep(acc, chapterWeights[k], chapterLocalProgress[k], k) :
                 acc \in { BlendLoop(chapterWeights, chapterLocalProgress, k - 1) } } : TRUE

DivideVector(v, totalWeight) == [i \in 1..3 |-> RTrunc(RDiv(v[i], totalWeight))]

\* the pose used when no chapter has weight: chapter 1's start
FallbackPose ==
    [pos |-> <<0, 500, 8000>>, target |-> <<0, 0, 0>>, fov |-> 6000,
     damping |-> RInt(30), microMotion |-> RInt(150)]

\* a faulty variant: with no weight, the empty sums are used as the pose
BlendedPose_NoFallback(acc) ==
    IF RLt(R0, acc.totalWeight)
    THEN [pos |-> DivideVector(acc.pos, acc.totalWeight),
          target |-> DivideVector(acc.target, acc.totalWeight),
          fov |-> RTrunc(RDiv(acc.fov, acc.totalWeight)),
          damping |-> RDiv(acc.damping, acc.totalWeight),
          microMotion |-> RDiv(acc.microMotion, acc.totalWeight)]
    ELSE [pos |-> <<0, 0, 0>>, target |-> <<0, 0, 0>>, fov |-> 0,
          damping |-> R0, microMotion |-> R0]

\* normalize by total weight, or fall back
BlendedPose(acc) ==
    IF RLt(R0, acc.totalWeight)
    THEN [pos |-> DivideVector(acc.pos, acc.totalWeight),
          target |-> DivideVector(acc.target, acc.totalWeight),
          fov |-> RTrunc(RDiv(acc.fov, acc.totalWeight)),
          damping |-> RDiv(acc.damping, acc.totalWeight),
          microMotion |-> RDiv(acc.microMotion, acc.totalWeight)]
    ELSE FallbackPose

\* values (sin, cos, sin) the three noise terms may take in a frame
NoisePhases == { <<0, 1, 0>>, <<-1, 0, 1>> }

\* the micro-motion added to the blended position, from thousandths
MicroMotion(blendedMicroMotion, phase) ==
    LET m == RTrunc(blendedMicroMotion)
    IN  << TruncDiv(phase[1] * m, 10),
           TruncDiv(phase[2] * m * 7, 100),
           TruncDiv(phase[3] * m * 5, 100) >>

\* a faulty variant: the micro-motion is added whether playing or not
NoisyTarget_Always(pose, isPlaying, phase) ==
    IF RLt(R0, pose.microMotion)
    THEN LET noise == MicroMotion(pose.microMotion, phase)
         IN  [i \in 1..3 |-> pose.pos[i] + noise[i]]
    ELSE pose.pos

NoisyTarget(pose, isPlaying, phase) ==
    IF RLt(R0, pose.microMotion) /\ isPlaying
    THEN LET noise == MicroMotion(pose.microMotion, phase)
         IN  [i \in 1..3 |-> pose.pos[i] + noise[i]]
    ELSE pose.pos

\* the k-th term of the series of exp(x / 1000), in ten-thousandths
RECURSIVE ExpTerm(_, _)
ExpTerm(x, k) == IF k = 0 THEN 10000 ELSE (ExpTerm(x, k - 1) * x) \div (1000 * k)

RECURSIVE ExpSum(_, _)
ExpSum(x, k) == IF k = 0 THEN ExpTerm(x, 0) ELSE ExpSum(x, k - 1) + ExpTerm(x, k)

\* exp(x / 1000) in ten-thousandths, for 0 <= x <= 1000
Exp(x) == ExpSum(x, 8)

\* lerp(current, target, 1 - 1 / e) for e = exp(lambda * dt)
Lerp(current, target, e) == current + TruncDiv((target - current) * (e - 10000), e)

\* a faulty variant: the exponent has lost its sign, a lerp by 1 - exp(lambda * dt)
damp_SignLost(current, target, lambda, dt) ==
    CHOOSE out \in { current + TruncDiv((target - current) * (10000 - e), 10000) :
                       e \in { Exp(RTrunc(RMul(lambda, RInt(10 * dt)))) } } : TRUE

\* a faulty variant: a lerp by lambda * dt itself
damp_Linear(current, target, lambda, dt) ==
    current + TruncDiv((target - current) * RTrunc(RMul(lambda, RInt(10 * dt))), 1000)

\* lambda in tenths (a rational), dt in tenths of a second
damp(current, target, lambda, dt) ==
    CHOOSE out \in { Lerp(current, target, e) :
                       e \in { Exp(RTrunc(RMul(lambda, RInt(10 * dt)))) } } : TRUE

dampVector3(current, target, lambda, dt) ==
    [i \in 1..3 |-> damp(current[i], target[i], lambda, dt)]

\* the damping part of the callback, from the blended pose and the noisy target
Smooth(pose, target, pos, tgt, fov, dt) ==
    LET dampingFactor == RMax(RInt(10), RMin(RInt(50), pose.damping))
    IN  [smoothPos |-> dampVector3(pos, target, dampingFactor, dt),
         smoothTarget |-> dampVector3(tgt, pose.target, RMul(dampingFactor, Rat(3, 2)), dt),
         smoothFov |-> damp(fov, pose.fov, RMul(dampingFactor, RInt(2)), dt),
         targetPos |-> target]

\* CinematicCamera's useFrame callback
CameraFrame(chapterWeights, chapterLocalProgress, isPlaying, pos, tgt, fov, delta, phase) ==
    CHOOSE out \in
        { Smooth(pt[1], pt[2], pos, tgt, fov, cappedDelta(delta)) :
            pt \in { << pose, NoisyTarget(pose, isPlaying, phase) >> :
                       pose \in { BlendedPose(acc) :
                                    acc \in { BlendLoop(chapterWeights, chapterLocalProgress,
                                                        Len(CHAPTERS)) } } } } : TRUE

\* arguments drawn for the commands
SkipIds == {1, 2, 10}
SeekTimes == {-1, 35, 625, 650}
SeekProgress == {Rat(-1, 2), Rat(1, 2), Rat(3, 2)}

(***************************************************************************)
(* HUD.jsx useSmoothValue.  Values are in hundred-thousandths, so the      *)
(* threshold 0.001 is 100 and a step past it is never cut to nothing.      *)
(***************************************************************************)
\* ProgressBar: useSmoothValue(totalProgress, 0.08), in percent; grain is the
\* gap between neighbouring doubles at the values' size when it matters (0:
\* it does not, as for a progress in [0, 1]).
\* NarrativeDisplay: useState(text), useState(1), useRef(null); timeoutRef
\* holds the text the pending fade-out timer will display, fadeIns counts the
\* pending fade-in timers, changes the text changes rendered so far.
InitialHud ==
    [value |-> 0, smoothed |-> 0, smoothingFactor |-> 8, grain |-> 0,
     displayedText |-> "", opacity |-> 1, timeoutRef |-> << >>, fadeIns |-> 0,
     changes |-> 0]

\* one run of animate: the new smoothedRef.current
animate(smoothed, value, smoothingFactor) ==
    IF Abs(value - smoothed) > 100
    THEN smoothed + TruncDiv((value - smoothed) * smoothingFactor, 100)
    ELSE value

cameraVars == << smoothPos, smoothTarget, smoothFov, targetPos, frames >>
refVars == << lastNarrativeIndex, prevNarrativeText, chapterStartTime >>

Init ==
    /\ store = InitialStore
    /\ lastNarrativeIndex = -1
    /\ prevNarrativeText = ""
    /\ chapterStartTime = 0
    /\ smoothPos = << 0, 500, 8000 >>
    /\ smoothTarget = << 0, 0, 0 >>
    /\ smoothFov = 6000
    /\ targetPos = << 0, 0, 0 >>
    /\ timers = 0
    /\ notified = << >>
    /\ lastOp = [op |-> "init", arg |-> 0]
    /\ frames = 0
    /\ hud = InitialHud

\* the driver's useFrame callback, for a frame delta
TickWith(delta) ==
    \E r \in { TickResult(store, lastNarrativeIndex, prevNarrativeText, delta) } :
        /\ store' = r.store
        /\ lastNarrativeIndex' = r.lastNarrativeIndex
        /\ prevNarrativeText' = r.prevNarrativeText
        /\ lastOp' = [op |-> "tick", arg |-> delta]
        /\ UNCHANGED << chapterStartTime, cameraVars, timers, notified, hud >>

\* the driver's useFrame callback
Tick == \E delta \in Deltas : TickWith(delta)

\* a frame whose delta is positive
AdvancingTick == \E delta \in Deltas \ {0} : TickWith(delta)

\* the same callback, with the snapshots its store actions hand to subscribers
ObservedTick ==
    \E delta \in Deltas :
        \E r \in { TickResult(store, lastNarrativeIndex, prevNarrativeText, delta) } :
            /\ store' = r.store
            /\ lastNarrativeIndex' = r.lastNarrativeIndex
            /\ prevNarrativeText' = r.prevNarrativeText
            /\ notified' = r.notified
            /\ lastOp' = [op |-> "tick", arg |-> delta]
            /\ UNCHANGED << chapterStartTime, cameraVars, timers, hud >>

\* a store action called by a collaborator
Command(op, arg, st) ==
    /\ store' = st
    /\ lastOp' = [op |-> op, arg |-> arg]
    /\ UNCHANGED << refVars, cameraVars, timers, notified, hud >>

SetPlaying == \E b \in BOOLEAN : Command("setPlaying", b, setIsPlaying(store, b))

Reset == Command("reset", 0, reset(store))

SkipToChapter == \E id \in SkipIds : Command("skipToChapter", id, skipToChapter(store, id))

SkipToEnd == Command("skipToEnd", 0, skipToEnd(store))

SetGlobalTime ==
    \E t \in SeekTimes : Command("setGlobalTime", t, setGlobalTime(store, t))

SetProgress == \E p \in SeekProgress : Command("setProgress", p, setProgress(store, p))

Next ==
    \/ Tick
    \/ SetPlaying
    \/ Reset
    \/ SkipToChapter
    \/ SkipToEnd
    \/ SetGlobalTime
    \/ SetProgress

Spec == Init /\ [][Next]_vars

(***************************************************************************)
(* Uninterrupted playback: frames only, and frames with a positive delta   *)
(* keep arriving (the host's animation loop calls back on every frame).    *)
(***************************************************************************)
NextPlayback == Tick

SpecPlayback == Init /\ [][NextPlayback]_vars /\ WF_vars(AdvancingTick)

(***************************************************************************)
(* The Weight Function called directly (it is exported), between frames.   *)
(* notified keeps the calls made: the time handed in and the value         *)
(* returned.                                                               *)
(***************************************************************************)
\* calls of computeAllWeights that are recorded
MaxCalls == 3

CallWeights ==
    /\ Len(notified) < MaxCalls
    /\ \E t \in {35, TOTAL_DURATION} :
        \E out \in { computeAllWeights(t) } :
            /\ notified' = Append(notified, [time |-> t, out |-> out])
            /\ lastOp' = [op |-> "computeAllWeights", arg |-> t]
    /\ UNCHANGED << store, refVars, cameraVars, timers, hud >>

NextWeights ==
    \/ CallWeights
    \/ Tick
    \/ SkipToEnd

SpecWeights == Init /\ [][NextWeights]_vars

(***************************************************************************)
(* The driver as its subscribers observe it.                               *)
(***************************************************************************)
NextObserved ==
    \/ ObservedTick
    \/ SetPlaying
    \/ SkipToEnd

SpecObserved == Init /\ [][NextObserved]_vars

(***************************************************************************)
(* Rendered frames: the camera's callback runs first, then the driver's    *)
(* (Scene mounts CinematicCamera before TransitionController).             *)
(***************************************************************************)
Frame ==
    /\ frames < MaxFrames
    /\ \E delta \in Deltas, phase \in NoisePhases :
        \E c \in { CameraFrame(store.chapterWeights, store.chapterLocalProgress,
                               store.isPlaying, smoothPos, smoothTarget, smoothFov,
                               delta, phase) } :
        \E r \in { TickResult(store, lastNarrativeIndex, prevNarrativeText, delta) } :
            /\ smoothPos' = c.smoothPos
            /\ smoothTarget' = c.smoothTarget
            /\ smoothFov' = c.smoothFov
            /\ targetPos' = c.targetPos
            /\ store' = r.store
            /\ lastNarrativeIndex' = r.lastNarrativeIndex
            /\ prevNarrativeText' = r.prevNarrativeText
            /\ frames' = frames + 1
            /\ lastOp' = [op |-> "frame", arg |-> delta]
            /\ UNCHANGED << chapterStartTime, timers, notified, hud >>

NextCamera ==
    \/ Frame
    \/ SetPlaying
    \/ SkipToChapter

SpecCamera == Init /\ [][NextCamera]_vars

(***************************************************************************)
(* The Damped Smoother on its own: from a pose, one step over 0.1 s, and   *)
(* the same 0.1 s in two steps.  damp reads lambda and dt only through     *)
(* their product, so a step over a part of 0.1 s is a step over 0.1 s at   *)
(* that part of lambda.  notified keeps the experiment: the rate, the      *)
(* split, the pose it started from and the pose one whole step gives.      *)
(***************************************************************************)
SmootherPaths == {1, 7, 10}

\* position, look-target and fov after one callback's damping at rate lambda
SmoothAt(pos, tgt, fov, target, lambda) ==
    [pos |-> dampVector3(pos, target, lambda, 1),
     target |-> dampVector3(tgt, FallbackPose.target, RMul(lambda, Rat(3, 2)), 1),
     fov |-> damp(fov, FallbackPose.fov, RMul(lambda, RInt(2)), 1)]

InitSmoother ==
    /\ store = InitialStore
    /\ lastNarrativeIndex = -1
    /\ prevNarrativeText = ""
    /\ chapterStartTime = 0
    /\ smoothPos \in { CAMERA_PATHS[k].p0.pos : k \in SmootherPaths }
    /\ targetPos \in { CAMERA_PATHS[k].p1.pos : k \in SmootherPaths }
    /\ smoothTarget \in { << 0, 0, 0 >>, << 100, 0, -200 >> }
    /\ smoothFov \in { CAMERA_PATHS[k].p1.fov : k \in SmootherPaths }
    /\ timers = 0
    /\ notified = << >>
    /\ lastOp = [op |-> "init", arg |-> 0]
    /\ frames = 0
    /\ hud = InitialHud

\* one step over the whole 0.1 s, kept aside
SmoothWhole ==
    /\ notified = << >>
    /\ \E lambda \in {RInt(10), RInt(30), RInt(50)},
          first \in {Rat(1, 2), Rat(1, 4), Rat(3, 4)} :
        \E whole \in { SmoothAt(smoothPos, smoothTarget, smoothFov, targetPos, lambda) } :
            /\ notified' = << [lambda |-> lambda, first |-> first,
                               from |-> [pos |-> smoothPos, target |-> smoothTarget,
                                         fov |-> smoothFov],
                               whole |-> whole] >>
            /\ lastOp' = [op |-> "dampWhole", arg |-> lambda]
    /\ UNCHANGED << store, refVars, cameraVars, timers, hud >>

\* one of the two steps that split the 0.1 s
SmoothPart ==
    /\ Len(notified) = 1
    /\ frames < 2
    /\ \E part \in { IF frames = 0 THEN notified[1].first
                      ELSE RSub(R1, notified[1].first) } :
        \E c \in { SmoothAt(smoothPos, smoothTarget, smoothFov, targetPos,
                             RMul(notified[1].lambda, part)) } :
            /\ smoothPos' = c.pos
            /\ smoothTarget' = c.target
            /\ smoothFov' = c.fov
            /\ lastOp' = [op |-> "dampPart", arg |-> part]
    /\ frames' = frames + 1
    /\ UNCHANGED << store, refVars, targetPos, timers, notified, hud >>

NextSmoother ==
    \/ SmoothWhole
    \/ SmoothPart

SpecSmoother == InitSmoother /\ [][NextSmoother]_vars

(***************************************************************************)
(* The HUD's smoothed readouts: the displayed value is handed a new target *)
(* once the last one is reached, and the host calls animate back on every  *)
(* animation frame, however long the frame took.                           *)
(***************************************************************************)
\* the same run of animate for values so large that neighbouring doubles are
\* grain apart: the sum smoothedRef.current + diff * smoothingFactor is the
\* nearest double, the even one on a tie
animateRounded(smoothed, value, smoothingFactor, grain) ==
    IF Abs(value - smoothed) > 100
    THEN LET sum == smoothed * 100 + (value - smoothed) * smoothingFactor
             q == sum \div (grain * 100)
             r == sum - q * grain * 100
         IN  IF 2 * r < grain * 100 \/ (2 * r = grain * 100 /\ q % 2 = 0)
             THEN q * grain
             ELSE (q + 1) * grain
    ELSE value

\* a render with a new value (and the smoothingFactor of the component):
\* ProgressBar, or ScaleDisplay, whose scale is as small as 1 or, past 1e13,
\* so large that doubles are 0.002 apart (the values are then offsets)
HudRender ==
    /\ hud.smoothed = hud.value
    /\ \E v \in {0, 25000, 100000} \ {hud.value},
          c \in { << 8, 0 >>, << 5, 0 >>, << 5, 200 >> } :
        /\ hud' = [hud EXCEPT !.value = v, !.smoothingFactor = c[1], !.grain = c[2]]
        /\ lastOp' = [op |-> "hudRender", arg |-> v]
    /\ UNCHANGED << store, refVars, cameraVars, timers, notified >>

\* the requestAnimationFrame callback, delta tenths of a second after the last
HudAnimate ==
    /\ hud.smoothed # hud.value
    /\ \E delta \in Deltas \ {0} :
        /\ hud' = [hud EXCEPT !.smoothed =
                       IF hud.grain = 0
                       THEN animate(hud.smoothed, hud.value, hud.smoothingFactor)
                       ELSE animateRounded(hud.smoothed, hud.value, hud.smoothingFactor,
                                           hud.grain)]
        /\ lastOp' = [op |-> "hudAnimate", arg |-> delta]
    /\ UNCHANGED << store, refVars, cameraVars, timers, notified >>

NextHud ==
    \/ HudRender
    \/ HudAnimate

\* a requested animation frame is delivered
SpecHud == Init /\ [][NextHud]_vars /\ WF_vars(HudAnimate)

(***************************************************************************)
(* NarrativeDisplay: the store's text changes, the component renders and   *)
(* its effect runs; the fade-out timer fires 400 ms after it was set, the   *)
(* fade-in timer 50 ms after the fade-out timer fired, so every fade-in     *)
(* timer has fired before a later fade-out timer does.                     *)
(***************************************************************************)
\* the effect on [text, displayedText], after the cleanup of the previous run
NarrativeEffect(h, text) ==
    IF text # h.displayedText
    THEN [h EXCEPT !.opacity = 0, !.timeoutRef = << text >>]
    ELSE [h EXCEPT !.timeoutRef = << >>]

\* a render with a new text from the store
DisplayRender ==
    /\ hud.changes < MaxCalls
    /\ \E text \in {"", "Now, at random:", "You choose one atom.",
                     "You pick a random planet..."} \ {store.narrativeText} :
        /\ store' = setNarrativeText(store, text)
        /\ hud' = NarrativeEffect([hud EXCEPT !.changes = @ + 1], text)
        /\ lastOp' = [op |-> "displayRender", arg |-> text]
    /\ UNCHANGED << refVars, cameraVars, timers, notified >>

\* the 400 ms callback: setDisplayedText(text), the fade-in timer is set, and
\* the render that follows runs the effect again
FadeOutTimeout ==
    /\ hud.timeoutRef # << >>
    /\ hud.fadeIns = 0
    /\ hud' = NarrativeEffect([hud EXCEPT !.displayedText = hud.timeoutRef[1],
                                          !.timeoutRef = << >>,
                                          !.fadeIns = @ + 1],
                              store.narrativeText)
    /\ lastOp' = [op |-> "fadeOutTimeout", arg |-> hud.timeoutRef[1]]
    /\ UNCHANGED << store, refVars, cameraVars, timers, notified >>

\* the 50 ms callback: setOpacity(1)
FadeInTimeout ==
    /\ hud.fadeIns > 0
    /\ hud' = [hud EXCEPT !.opacity = 1, !.fadeIns = @ - 1]
    /\ lastOp' = [op |-> "fadeInTimeout", arg |-> 0]
    /\ UNCHANGED << store, refVars, cameraVars, timers, notified >>

\* a timer that is set fires
SpecDisplay ==
    /\ Init
    /\ [][DisplayRender \/ FadeOutTimeout \/ FadeInTimeout]_vars
    /\ WF_vars(FadeOutTimeout) /\ WF_vars(FadeInTimeout)

(***************************************************************************)
(* The store's own actions (store.js), called in any order.                *)
(***************************************************************************)
ChapterArgs == {1, 10}
ProgressArgs == {Rat(1, 2)}
ScaleArgs == {RInt(-10)}
TextArgs == {"", "You choose one atom."}
DistanceArgs == {0, 1000}
CameraArgs == { << <<0, 2, 10>>, <<0, 0, 0>> >>, << <<0, 80, 300>>, <<0, 1, 0>> >> }

\* setTimeout callbacks of nextChapter that may be pending at once
MaxTimers == 1

StoreAction(op, arg, st) ==
    /\ store' = st
    /\ lastOp' = [op |-> op, arg |-> arg]
    /\ UNCHANGED << refVars, cameraVars, timers, notified, hud >>

SetChapter == \E c \in ChapterArgs : StoreAction("setChapter", c, setChapter(store, c))

SetChapterProgress ==
    \E p \in ProgressArgs : StoreAction("setChapterProgress", p, setChapterProgress(store, p))

SetScale == \E x \in ScaleArgs : StoreAction("setScale", x, setScale(store, x))

SetNarrativeText ==
    \E t \in TextArgs : StoreAction("setNarrativeText", t, setNarrativeText(store, t))

SetDistanceTraveled ==
    \E d \in DistanceArgs : StoreAction("setDistanceTraveled", d, setDistanceTraveled(store, d))

SetCameraState ==
    \E c \in CameraArgs : StoreAction("setCameraState", c, setCameraState(store, c[1], c[2]))

SetIsPlaying == \E b \in BOOLEAN : StoreAction("setIsPlaying", b, setIsPlaying(store, b))

SetIsTransitioning ==
    \E b \in BOOLEAN : StoreAction("setIsTransitioning", b, setIsTransitioning(store, b))

\* nextChapter(): the update and, when it advanced, its setTimeout(..., 1000)
NextChapter ==
    /\ timers < MaxTimers
    /\ store' = nextChapter(store)
    /\ timers' = IF store.currentChapter < Len(CHAPTERS) THEN timers + 1 ELSE timers
    /\ lastOp' = [op |-> "nextChapter", arg |-> 0]
    /\ UNCHANGED << refVars, cameraVars, notified, hud >>

\* a timeout of nextChapter fires: set({ isTransitioning: false })
TransitionTimeout ==
    /\ timers > 0
    /\ store' = setIsTransitioning(store, FALSE)
    /\ timers' = timers - 1
    /\ lastOp' = [op |-> "timeout", arg |-> 0]
    /\ UNCHANGED << refVars, cameraVars, notified, hud >>

SkipChapter == StoreAction("skipChapter", 0, skipChapter(store))

SkipToEndStore == StoreAction("skipToEnd", 0, skipToEnd(store))

ResetStore == StoreAction("reset", 0, reset(store))

NextStore ==
    \/ SetChapter
    \/ SetChapterProgress
    \/ SetScale
    \/ SetNarrativeText
    \/ SetDistanceTraveled
    \/ SetCameraState
    \/ SetIsPlaying
    \/ SetIsTransitioning
    \/ NextChapter
    \/ TransitionTimeout
    \/ SkipChapter
    \/ SkipToEndStore
    \/ ResetStore

SpecStore == Init /\ [][NextStore]_vars

(***************************************************************************)
(* The discrete-chapter driver (TransitionController.jsx, the variant that *)
(* keeps currentChapter and chapterProgress).  Its frame delta is used as  *)
(* reported.  The effect on [currentChapter] runs with the render that     *)
(* follows a change of currentChapter.                                     *)
(***************************************************************************)
\* a faulty variant: the next chapter fades in with the curve of the progress itself
computeChapterWeights_FadeInProgress(currentChapter, chapterProgress) ==
    [i \in ChapterIds |->
        IF i = currentChapter
        THEN IF RLt(RSub(R1, BLEND_WINDOW), chapterProgress) /\ currentChapter < Len(CHAPTERS)
             THEN FADE_CURVE(RDiv(RSub(R1, chapterProgress), BLEND_WINDOW))
             ELSE R1
        ELSE IF i = currentChapter + 1 /\ RLt(RSub(R1, BLEND_WINDOW), chapterProgress)
             THEN FADE_CURVE(chapterProgress)
             ELSE R0]

\* weights[i] = Math.max(0, Math.min(1, weight))
computeChapterWeights(currentChapter, chapterProgress) ==
    [i \in ChapterIds |->
        RMax(R0, RMin(R1,
            IF i = currentChapter
            THEN IF RLt(RSub(R1, BLEND_WINDOW), chapterProgress)
                    /\ currentChapter < Len(CHAPTERS)
                 THEN FADE_CURVE(RDiv(RSub(R1, chapterProgress), BLEND_WINDOW))
                 ELSE R1
            ELSE IF i = currentChapter + 1 /\ RLt(RSub(R1, BLEND_WINDOW), chapterProgress)
                 THEN FADE_CURVE(RDiv(RSub(chapterProgress, RSub(R1, BLEND_WINDOW)),
                                      BLEND_WINDOW))
                 ELSE R0))]

\* the useFrame callback while playing, from store st and the refs: the store,
\* the refs and whether nextChapter() was called
ChapterTickResult(st, startTime, lastIdx, prevText, delta) ==
    LET narrativeEntries == NARRATIVE[st.currentChapter]
        elapsedSeconds == startTime + delta
        progress == RMin(Rat(elapsedSeconds, Duration(st.currentChapter)), R1)
        s1 == setChapterProgress(st, progress)
        reached == { i \in 1..Len(narrativeEntries) :
                       elapsedSeconds >= narrativeEntries[i].time }
        idx == IF reached = {} THEN -1
               ELSE (CHOOSE i \in reached : \A j \in reached : j <= i) - 1
        newText == IF idx >= 0 THEN narrativeEntries[idx + 1].text ELSE ""
        push == idx # lastIdx /\ newText # prevText
        s2 == IF push THEN setNarrativeText(s1, newText) ELSE s1
        clear == /\ RLt(Rat(95, 100), progress)
                 /\ Len(narrativeEntries) > 0
                 /\ elapsedSeconds > narrativeEntries[Len(narrativeEntries)].time + 20
        s3 == IF clear THEN setNarrativeText(s2, "") ELSE s2
        advance == RLe(R1, progress) /\ st.currentChapter < Len(CHAPTERS)
    IN  [store |-> IF advance THEN nextChapter(s3) ELSE s3,
         chapterStartTime |-> IF advance THEN 0 ELSE elapsedSeconds,
         lastNarrativeIndex |-> IF advance THEN -1 ELSE idx,
         prevNarrativeText |-> IF push THEN newText ELSE prevText,
         advance |-> advance]

\* the discrete driver's useFrame callback; the elapsed time, which the code
\* lets grow without end in the last chapter, is followed up to one frame
\* past the chapter's duration
ChapterTick ==
    /\ store.isPlaying => chapterStartTime <= Duration(store.currentChapter)
    /\ \E delta \in Deltas :
            \E r \in { IF store.isPlaying
                       THEN ChapterTickResult(store, chapterStartTime, lastNarrativeIndex,
                                              prevNarrativeText, delta)
                       ELSE [store |-> store, chapterStartTime |-> chapterStartTime,
                             lastNarrativeIndex |-> lastNarrativeIndex,
                             prevNarrativeText |-> prevNarrativeText, advance |-> FALSE] } :
                /\ r.advance => timers < MaxTimers
                /\ store' = r.store
                /\ chapterStartTime' = r.chapterStartTime
                /\ lastNarrativeIndex' = r.lastNarrativeIndex
                /\ prevNarrativeText' = r.prevNarrativeText
                /\ timers' = IF r.advance THEN timers + 1 ELSE timers
                /\ lastOp' = [op |-> "chapterTick", arg |-> delta]
                /\ UNCHANGED << cameraVars, notified, hud >>

\* reset() from the controls; the effect on [currentChapter] runs only when
\* currentChapter changed
ResetChapters ==
    /\ store' = reset(store)
    /\ chapterStartTime' = IF store.currentChapter # 1 THEN 0 ELSE chapterStartTime
    /\ lastNarrativeIndex' = IF store.currentChapter # 1 THEN -1 ELSE lastNarrativeIndex
    /\ lastOp' = [op |-> "reset", arg |-> store.currentChapter]
    /\ UNCHANGED << prevNarrativeText, cameraVars, timers, notified, hud >>

SpecChapters ==
    Init /\ [][ChapterTick \/ ResetChapters \/ SetPlaying \/ TransitionTimeout]_vars

(***************************************************************************)
(* Properties of the timeline driver.                                     *)
(***************************************************************************)
\* the store holds what the last run of the driver's callback published
Published == lastOp.op = "tick"

TotalWeight(w) == SumWeights(w, Len(CHAPTERS))

OnlyChapter(w, c) == w[c] = R1 /\ \A o \in ChapterIds \ {c} : w[o] = R0

\* C1: partition of unity: at every time of the timeline, chapter boundaries
\* included, the weights computeAllWeights returns sum to 1.
C1_PartitionOfUnity == Published => TotalWeight(store.chapterWeights) = R1

\* C2: at globalTime = 0 chapter 1 has weight 1 and every other chapter 0.
C2_FirstFrameWeight ==
    (Published /\ store.globalTime = 0) => OnlyChapter(store.chapterWeights, 1)

\* chapter c is in its ramp-out window: 1 - BLEND_WINDOW < localProgress < 1
InRampOut(lp) == RLt(RSub(R1, BLEND_WINDOW), lp) /\ RLt(lp, R1)

StrictlyBetween01(w) == RLt(R0, w) /\ RLt(w, R1)

\* C3: mid-transition cross-fade: while a chapter with a successor ramps out,
\* it and its successor both have weight strictly between 0 and 1, summing to 1.
C3_CrossFade ==
    Published =>
        \A c \in 1..(Len(CHAPTERS) - 1) :
            InRampOut(store.chapterLocalProgress[c]) =>
                /\ StrictlyBetween01(store.chapterWeights[c])
                /\ StrictlyBetween01(store.chapterWeights[c + 1])
                /\ RAdd(store.chapterWeights[c], store.chapterWeights[c + 1]) = R1

\* C4: end scenario: after a tick at globalTime = TOTAL_DURATION chapter 10 has
\* weight 1, every other chapter weight 0, and narrativeText is empty.
C4_EndScenario ==
    (Published /\ store.globalTime = TOTAL_DURATION) =>
        /\ OnlyChapter(store.chapterWeights, 10)
        /\ store.narrativeText = ""

\* a playing tick has just brought the timeline to its end
C4_Witness ==
    /\ Published
    /\ store.isPlaying
    /\ lastOp.arg > 0
    /\ store.globalTime = TOTAL_DURATION
    /\ lastNarrativeIndex = Len(NARRATIVE_CUES) - 1

\* the text the narrative dispatcher's contract gives for a time
ExpectedNarrative(globalTime) ==
    IF PastClearPoint(globalTime) THEN ""
    ELSE CueText(currentNarrativeIndex(globalTime))

\* C5: after every tick the published narrativeText is the text of the latest
\* cue at or before globalTime, or empty before the first cue / past the clear point.
C5_NarrativeMatchesCue ==
    Published => store.narrativeText = ExpectedNarrative(store.globalTime)

\* C6: 0 <= globalTime <= TOTAL_DURATION after every tick and command;
\* an out-of-range argument is clamped.
C6_TimeInRange == 0 <= store.globalTime /\ store.globalTime <= TOTAL_DURATION

\* a setter was handed a time past the end and the store holds the end
C6_Witness ==
    /\ lastOp.op = "setGlobalTime"
    /\ lastOp.arg > TOTAL_DURATION
    /\ store.globalTime = TOTAL_DURATION

\* C10: the published scale is positive and finite: its base-10 logarithm
\* stays within the chapter table's exponents, -10 .. 27.
C10_ScaleInRange ==
    /\ RLe(RInt(-10), store.currentScale)
    /\ RLe(store.currentScale, RInt(27))

\* the driver has published the smallest scale of the table, in its context
C10_Witness ==
    /\ Published
    /\ store.currentScale = RInt(-10)
    /\ store.scaleContext = "ATOMIC"

\* a snapshot whose derived outputs are those of its own globalTime
Consistent(snap) ==
    LET d == Derived(snap.globalTime)
    IN  /\ snap.chapterWeights = d.weights
        /\ snap.chapterLocalProgress = d.localProgresses
        /\ (RLt(R0, d.scale.totalWeight) =>
                snap.currentScale = RDiv(d.scale.blendedLogScale, d.scale.totalWeight))
        /\ snap.narrativeText = ExpectedNarrative(snap.globalTime)

\* C9: a tick's outputs are published atomically: every snapshot a subscriber
\* is handed during the tick holds the outputs derived from its own globalTime.
C9_AtomicPublish ==
    Published => \A i \in 1..Len(notified) : Consistent(notified[i])

(***************************************************************************)
(* Properties of the store's actions.                                      *)
(***************************************************************************)
\* C8: after reset() the time position is 0, isPlaying is true and every
\* derived field (weights, local progress, scale and context, narrative text,
\* camera state, transition flag) has its value in a freshly constructed store.
C8_ResetIsFresh == lastOp.op = "reset" => store = InitialStore

(***************************************************************************)
(* Properties of rendered frames.                                          *)
(***************************************************************************)
\* C7: while paused, a frame callback leaves globalTime and every derived
\* output, the smoothed camera pose included, unchanged.  Stated for a paused
\* frame that follows a frame, so the outputs were already derived.
C7_PausedFrameFreezes ==
    [][(frames' = frames + 1 /\ ~store.isPlaying /\ lastOp.op = "frame") =>
          /\ store' = store
          /\ smoothPos' = smoothPos
          /\ smoothTarget' = smoothTarget
          /\ smoothFov' = smoothFov]_vars

(***************************************************************************)
(* Properties of consecutive ticks.                                        *)
(***************************************************************************)
RAbs(r) == IF RLt(r, R0) THEN RNeg(r) ELSE r

\* |logEnd - logStart| / duration of chapter c: its log-scale slope per tenth of a second
Slope(c) == RDiv(RAbs(RInt(CHAPTERS[c].logEnd - CHAPTERS[c].logStart)), RInt(Duration(c)))

RECURSIVE SteepestUpTo(_)
SteepestUpTo(k) == IF k = 0 THEN R0 ELSE RMax(SteepestUpTo(k - 1), Slope(k))

SteepestSlope == SteepestUpTo(Len(CHAPTERS))

\* this step is a tick that follows a tick, playing throughout
PlayingTickAfterTick ==
    /\ lastOp.op = "tick"
    /\ lastOp'.op = "tick"
    /\ store.isPlaying
    /\ store'.isPlaying

\* C11: scale continuity: between two consecutive playing ticks the published
\* log10 scale changes by at most the steepest chapter slope times the time
\* advanced, at chapter boundaries too.
C11_ScaleContinuity ==
    [][PlayingTickAfterTick =>
          RLe(RAbs(RSub(store'.currentScale, store.currentScale)),
              RMul(SteepestSlope, RInt(store'.globalTime - store.globalTime)))]_vars

\* the pose CinematicCamera blends from a store's weights and local progresses,
\* before micro-motion and smoothing
TargetPose(st) ==
    CHOOSE out \in { BlendedPose(acc) :
                       acc \in { BlendLoop(st.chapterWeights, st.chapterLocalProgress,
                                           Len(CHAPTERS)) } } : TRUE

\* the components of a pose: position x, y, z, look-target x, y, z, fov
PoseComponents(pose) == pose.pos \o pose.target \o << pose.fov >>

\* the fastest an authored path moves component i in a tenth of a second:
\* easeOutQuart has slope at most 4
RECURSIVE PathSpeedUpTo(_, _)
PathSpeedUpTo(k, i) ==
    IF k = 0 THEN R0
    ELSE LET a == PoseComponents(CAMERA_PATHS[k].p0)[i]
             b == PoseComponents(CAMERA_PATHS[k].p1)[i]
         IN  RMax(PathSpeedUpTo(k - 1, i), Rat(4 * Abs(b - a), Duration(k)))

PathSpeed(i) == PathSpeedUpTo(Len(CHAPTERS), i)

\* C12: the blended camera target pose has no cut: between two consecutive
\* playing ticks each component of position, look-target and fov changes by at
\* most the authored path motion over the time advanced, at boundaries too.
C12_NoCameraCut ==
    [][PlayingTickAfterTick =>
          \E pp \in { << PoseComponents(TargetPose(store)),
                         PoseComponents(TargetPose(store')) >> } :
              \A i \in 1..7 :
                  RLe(RInt(Abs(pp[2][i] - pp[1][i])),
                      RMul(PathSpeed(i), RInt(store'.globalTime - store.globalTime)))]_vars

(***************************************************************************)
(* Properties of local progress.                                           *)
(***************************************************************************)
\* the local progress published for chapter c is the one stated for time t
ProgressAsStated(lp, c, t) ==
    /\ (t < ChapterStart(c) => lp = R0)
    /\ (t >= ChapterEnd(c) => lp = R1)
    /\ (ChapterStart(c) <= t /\ t < ChapterEnd(c) =>
            lp = Rat(t - ChapterStart(c), Duration(c)))
    /\ RLe(R0, lp) /\ RLe(lp, R1)

\* C13: for every chapter and time, local progress is 0 before the chapter's
\* start, 1 from its end on and (globalTime - start) / duration in between;
\* it lies in [0, 1] and does not decrease when globalTime does not.
C13_LocalProgress ==
    [][lastOp'.op = "tick" =>
          \A c \in ChapterIds :
              /\ ProgressAsStated(store'.chapterLocalProgress[c], c, store'.globalTime)
              /\ (lastOp.op = "tick" /\ store'.globalTime >= store.globalTime =>
                      RLe(store.chapterLocalProgress[c], store'.chapterLocalProgress[c]))]_vars

\* a playing tick has arrived exactly on the boundary between chapters 1 and 2
C13_Witness ==
    /\ Published
    /\ lastOp.arg > 0
    /\ store.isPlaying
    /\ store.globalTime = ChapterEnd(1)
    /\ store.chapterLocalProgress[1] = R1
    /\ store.chapterLocalProgress[2] = R0
    /\ store.chapterLocalProgress[10] = R0

DampingFactor(pose) == RMax(RInt(10), RMin(RInt(50), pose.damping))

\* |to - from| is at most the distance one smoothing step over 0.1 s covers
WithinCapStep(from, to, target, lambda) ==
    Abs(to - from) <= Abs(damp(from, target, lambda, 1) - from)

\* C15: the frame delta is capped at 0.1 s before use: a frame advances
\* globalTime by at most 0.1 s whatever delta the host reports, and the camera
\* smoother moves position, look-target and fov by at most one step over 0.1 s.
C15_DeltaCapped ==
    [][frames' = frames + 1 =>
          /\ store'.globalTime - store.globalTime <= 1
          /\ \E pose \in { TargetPose(store) } :
             \E lambda \in { DampingFactor(pose) } :
                 /\ \A i \in 1..3 :
                        /\ WithinCapStep(smoothPos[i], smoothPos'[i], targetPos'[i], lambda)
                        /\ WithinCapStep(smoothTarget[i], smoothTarget'[i], pose.target[i],
                                         RMul(lambda, Rat(3, 2)))
                 /\ WithinCapStep(smoothFov, smoothFov', pose.fov, RMul(lambda, RInt(2)))]_vars

\* a frame reported more than 0.1 s while playing: time advanced by 0.1 s and
\* the camera moved
C15_Witness ==
    /\ lastOp.op = "frame"
    /\ lastOp.arg > 1
    /\ store.isPlaying
    /\ store.globalTime = 1
    /\ frames = 1
    /\ smoothPos # << 0, 500, 8000 >>

(***************************************************************************)
(* Properties of uninterrupted playback.                                   *)
(***************************************************************************)
\* C16: while playing with no reset or seek, globalTime never decreases from
\* tick to tick, and if frames with a positive delta keep arriving it
\* eventually equals TOTAL_DURATION and stays there on every later tick.
C16_PlaysToTheEnd ==
    /\ [][store.isPlaying => store'.globalTime >= store.globalTime]_vars
    /\ <>[](store.globalTime = TOTAL_DURATION)

\* playback has reached the end and a further advancing frame has run there
C16_Witness ==
    /\ lastOp.op = "tick"
    /\ lastOp.arg = MaxDelta
    /\ store.isPlaying
    /\ store.globalTime = TOTAL_DURATION
    /\ store.chapterLocalProgress[10] = R1

(***************************************************************************)
(* Properties of the Damped Smoother.                                      *)
(***************************************************************************)
\* a and b are the same value at the resolution of this arithmetic: within
\* two units plus a thousandth of the distance the smoother had to cover
SameValue(a, b, from, target) == Abs(a - b) <= 2 + Abs(target - from) \div 1000

\* C17: frame-rate independence: for a fixed target and damping rate, two
\* successive smoothing steps over dt1 and dt2 leave the value one step over
\* dt1 + dt2 leaves, for position, look-target and fov alike.
C17_FrameRateIndependent ==
    (Len(notified) = 1 /\ frames = 2 /\ lastOp.op = "dampPart") =>
        /\ \A i \in 1..3 :
               /\ SameValue(smoothPos[i], notified[1].whole.pos[i],
                            notified[1].from.pos[i], targetPos[i])
               /\ SameValue(smoothTarget[i], notified[1].whole.target[i],
                            notified[1].from.target[i], FallbackPose.target[i])
        /\ SameValue(smoothFov, notified[1].whole.fov, notified[1].from.fov,
                     FallbackPose.fov)

\* an uneven split at the largest rate, from a pose far from its target, done
C17_Witness ==
    /\ Len(notified) = 1
    /\ frames = 2
    /\ lastOp.op = "dampPart"
    /\ notified[1].first = Rat(1, 4)
    /\ notified[1].lambda = RInt(50)
    /\ notified[1].from.pos = CAMERA_PATHS[7].p0.pos
    /\ targetPos = CAMERA_PATHS[7].p1.pos
    /\ smoothPos # notified[1].from.pos
    /\ smoothFov # notified[1].from.fov

(***************************************************************************)
(* Properties of the HUD's smoothing.                                      *)
(***************************************************************************)
\* C18: the HUD smooths with the Damped Smoother's formula, a lerp by
\* 1 - e^(-lambda * dt) with dt the elapsed frame time, so the value reached
\* after an elapsed time does not depend on the number of animation frames:
\* one frame that took 0.2 s leaves what two frames of 0.1 s leave.
C18_HudFrameRateIndependent ==
    [][(lastOp'.op = "hudAnimate" /\ lastOp'.arg = 2) =>
          hud'.smoothed =
              animate(animate(hud.smoothed, hud.value, hud.smoothingFactor),
                      hud.value, hud.smoothingFactor)]_vars

(***************************************************************************)
(* Properties of the weights inside a chapter.                             *)
(***************************************************************************)
StrictlyInside(c, globalTime) == ChapterStart(c) < globalTime /\ globalTime < ChapterEnd(c)

NarrativePushes ==
    NarrativeStep(store', currentNarrativeIndex(store'.globalTime), store'.globalTime,
                  lastNarrativeIndex, prevNarrativeText).notified

NarrativePushed ==
    \/ Len(NarrativePushes) > 0
    \/ store'.narrativeText # store.narrativeText
    \/ prevNarrativeText' # prevNarrativeText

\* after a tick the ref holds the index that tick resolved, and a tick past
\* the clear-point leaves no text behind: a text that is still held means no
\* tick since its push was past the clear-point
TickLeaves ==
    lastOp.op = "tick" =>
        /\ lastNarrativeIndex = currentNarrativeIndex(store.globalTime)
        /\ PastClearPoint(store.globalTime) =>
               (prevNarrativeText = "" /\ store.narrativeText = "")

\* C20: narrative dispatch is edge-triggered: a tick pushes a narrative-text
\* update only when the cue index it resolves differs from the index the
\* previous tick resolved, or when it is the first tick past the clear-point
\* since the held text was pushed; a tick that resolves the same index
\* otherwise pushes nothing.
C20_EdgeTriggered ==
    /\ [][(lastOp'.op = "tick" /\ NarrativePushed) =>
             \/ currentNarrativeIndex(store'.globalTime) # lastNarrativeIndex
             \/ PastClearPoint(store'.globalTime) /\ prevNarrativeText # ""]_vars
    /\ []TickLeaves

\* playback has gone on for several frames inside the last cue (from 61.0 s)
\* without a new push: the text pushed at its edge is still the one held
C20_Witness ==
    /\ lastOp.op = "tick"
    /\ lastOp.arg > 0
    /\ store.isPlaying
    /\ store.globalTime > NARRATIVE_CUES[Len(NARRATIVE_CUES)].time + 16
    /\ ~PastClearPoint(store.globalTime)
    /\ lastNarrativeIndex = Len(NARRATIVE_CUES) - 1
    /\ prevNarrativeText = CueText(lastNarrativeIndex)
    /\ store.narrativeText = prevNarrativeText

\* C21: whenever a tick ends with globalTime more than TOTAL_DURATION - 1 s,
\* the published narrativeText is empty, whichever cue is resolved and
\* however that time was reached.
C21_ClearRule ==
    (lastOp.op = "tick" /\ store.globalTime > TOTAL_DURATION - 10) =>
        store.narrativeText = ""

\* a paused tick at 64 s, reached by a jump: the last cue is the one
\* resolved and the text is empty all the same
C21_Witness ==
    /\ lastOp.op = "tick"
    /\ ~store.isPlaying
    /\ store.globalTime = TOTAL_DURATION
    /\ lastNarrativeIndex = Len(NARRATIVE_CUES) - 1
    /\ store.narrativeText = ""

(***************************************************************************)
(* Properties of a frame in which no chapter contributes.                  *)
(***************************************************************************)
NoContribution(w) == \A c \in ChapterIds : ~RLt(Negligible, w[c])

\* C22: in a tick where no chapter has weight above 0.001 the scale blender
\* publishes nothing: currentScale and scaleContext keep their values, and
\* the rest of the tick (local progresses, cue index) is done as usual.
C22_ZeroWeightKeepsScale ==
    [][(lastOp'.op = "tick" /\ NoContribution(store'.chapterWeights)) =>
          /\ store'.currentScale = store.currentScale
          /\ store'.scaleContext = store.scaleContext
          /\ store'.chapterLocalProgress =
                 computeAllWeights(store'.globalTime).localProgresses
          /\ lastNarrativeIndex' = currentNarrativeIndex(store'.globalTime)]_vars

\* playback arrives on the start of chapter 2 (4.0 s) with the scale chapter 1
\* left behind
C22_Witness ==
    /\ lastOp.op = "tick"
    /\ lastOp.arg > 0
    /\ store.isPlaying
    /\ store.globalTime = ChapterStart(2)
    /\ NoContribution(store.chapterWeights)
    /\ RLt(RInt(6), store.currentScale)
    /\ store.scaleContext = "PLANETARY"

\* no chapter has weight of at least 0.001
NoCameraWeight(w) == \A c \in ChapterIds : RLt(w[c], Negligible)

\* C23: in a frame where no chapter has weight of at least 0.001 the camera
\* blends to chapter 1's starting keyframe: position (0, 5, 80) (plus, while
\* playing, a micro-motion of amplitude 0.15), look-target (0, 0, 0), fov 60,
\* damping 3; and the frame runs to its end: the smoother steps toward them.
C23_ZeroWeightFallback ==
    [][(frames' = frames + 1 /\ NoCameraWeight(store.chapterWeights)) =>
          \E dt \in { Min(lastOp'.arg, 1) } :
              /\ targetPos' \in
                     { IF store.isPlaying
                       THEN << 0 + (150 * phase[1]) \div 10,
                               500 + TruncDiv(150 * phase[2] * 7, 100),
                               8000 + TruncDiv(150 * phase[3] * 5, 100) >>
                       ELSE << 0, 500, 8000 >> : phase \in NoisePhases }
              /\ smoothPos' = dampVector3(smoothPos, targetPos', RInt(30), dt)
              /\ smoothTarget' = dampVector3(smoothTarget, << 0, 0, 0 >>, RInt(45), dt)
              /\ smoothFov' = damp(smoothFov, 6000, RInt(60), dt)]_vars

\* a second frame while playing at 0 s, where the driver published no weight:
\* the target is the fallback position with its micro-motion, and the smoothed
\* position has followed it
C23_Witness ==
    /\ lastOp.op = "frame"
    /\ frames >= 2
    /\ store.isPlaying
    /\ store.globalTime = 0
    /\ NoCameraWeight(store.chapterWeights)
    /\ targetPos = << 0, 510, 8000 >>
    /\ smoothPos[2] > 500

\* C24: micro-motion is added to the blended target position only in frames
\* where isPlaying is true: in every frame where it is false the target handed
\* to the smoother is the weight-blended path position exactly.
C24_MicroMotionOnlyPlaying ==
    [][frames' = frames + 1 =>
          \E blended \in { TargetPose(store).pos } :
              /\ ~store.isPlaying => targetPos' = blended
              /\ targetPos' # blended => store.isPlaying]_vars

\* a paused frame 0.1 s into chapter 1, whose amplitude is 0.15: the target is
\* the path position, off the starting keyframe
C24_Witness ==
    /\ lastOp.op = "frame"
    /\ frames >= 2
    /\ ~store.isPlaying
    /\ store.globalTime = 1
    /\ store.chapterWeights[1] = R1
    /\ targetPos = TargetPose(store).pos
    /\ targetPos # << 0, 500, 8000 >>

(***************************************************************************)
(* Properties of a smoothing step.                                         *)
(***************************************************************************)
Between(from, x, to) == Min(from, to) <= x /\ x <= Max(from, to)

\* C25: the smoother never overshoots: after a frame's smoothing step each
\* smoothed component (position, look-target, fov) lies between its value
\* before the step and its target, both included, whatever the frame delta
\* and the blended damping.
C25_NoOvershoot ==
    [][frames' = frames + 1 =>
          \E pose \in { TargetPose(store) } :
              /\ \A i \in 1..3 :
                     /\ Between(smoothPos[i], smoothPos'[i], targetPos'[i])
                     /\ Between(smoothTarget[i], smoothTarget'[i], pose.target[i])
              /\ Between(smoothFov, smoothFov', pose.fov)]_vars

\* a frame reported more than 0.1 s into chapter 2 (damping 2.5, fov 55): the
\* smoothed pose has left the opening keyframe without passing its target
C25_Witness ==
    /\ lastOp.op = "frame"
    /\ lastOp.arg > 1
    /\ frames >= 2
    /\ store.globalTime >= ChapterStart(2)
    /\ smoothPos[2] > 500
    /\ smoothPos[2] < targetPos[2]
    /\ smoothFov < 6000
    /\ smoothFov > 5500

(***************************************************************************)
(* Properties of the scale context.                                        *)
(***************************************************************************)
\* st.scaleContext names a context whose range holds st.currentScale
ContextHolds(st) ==
    \E i \in 1..Len(SCALE_CONTEXTS) :
        /\ SCALE_CONTEXTS[i].name = st.scaleContext
        /\ RLe(RInt(SCALE_CONTEXTS[i].lo), st.currentScale)
        /\ RLe(st.currentScale, RInt(SCALE_CONTEXTS[i].hi))

\* scales from 1e-12 to 1e27: every power of ten and the half-decades between
ScalesInRange == { Rat(k, 2) : k \in -24..54 }

\* setScale writes both fields from its argument alone
SetScaleHolds == \A scale \in ScalesInRange : ContextHolds(setScale(InitialStore, scale))

\* C26: after every setScale(scale) with scale in [1e-12, 1e27], after every
\* scale the driver publishes and after reset(), scaleContext names a context
\* whose range contains currentScale: HUMAN is never left standing for a scale
\* outside the HUMAN range.
C26_ContextMatchesScale ==
    /\ ContextHolds(store)
    /\ SetScaleHolds

\* the driver has published 1e27, the top of the last range, inside chapter 6
C26_Witness ==
    /\ lastOp.op = "tick"
    /\ StrictlyInside(6, store.globalTime)
    /\ store.currentScale = RInt(27)
    /\ store.scaleContext = "COSMIC"

(***************************************************************************)
(* Properties of NarrativeDisplay.                                         *)
(***************************************************************************)
\* C27: NarrativeDisplay settles: once the store's text stops changing, the
\* component eventually shows exactly the store's text at opacity 1 and keeps
\* showing it, however the earlier changes fell between the timers, a change
\* back to the text still displayed included.
C27_DisplaySettles ==
    <>[](hud.displayedText = store.narrativeText /\ hud.opacity = 1)

(***************************************************************************)
(* Properties of the discrete-chapter driver.                              *)
(***************************************************************************)
\* C28: the first playing tick after reset() publishes a chapterProgress
\* computed from an elapsed time restarted at 0, so at most delta over
\* chapter 1's duration, whichever chapter was current at the reset,
\* chapter 1 included.
C28_ResetRestartsElapsed ==
    [][(lastOp.op = "reset" /\ lastOp'.op = "chapterTick" /\ store.isPlaying) =>
          RLe(store'.chapterProgress, Rat(lastOp'.arg, Duration(1)))]_vars

\* the weights useChapterWeight computes from the store
StoreChapterWeights == computeChapterWeights(store.currentChapter, store.chapterProgress)

\* C29: for every currentChapter and every chapterProgress in [0, 1] the
\* weights computeChapterWeights returns sum to exactly 1, each lies in
\* [0, 1], and only the current chapter and its successor can be non-zero.
C29_DiscreteWeights ==
    \E w \in { StoreChapterWeights } :
        /\ SumWeights(w, Len(CHAPTERS)) = R1
        /\ \A i \in ChapterIds :
               /\ RLe(R0, w[i]) /\ RLe(w[i], R1)
               /\ w[i] # R0 => i \in {store.currentChapter, store.currentChapter + 1}

\* chapter 3 is fading out and chapter 4 fading in, both with part of the weight
C29_Witness ==
    /\ lastOp.op = "chapterTick"
    /\ store.currentChapter = 3
    /\ RLt(Rat(82, 100), store.chapterProgress)
    /\ RLt(R0, StoreChapterWeights[3]) /\ RLt(StoreChapterWeights[3], R1)
    /\ RLt(R0, StoreChapterWeights[4]) /\ RLt(StoreChapterWeights[4], R1)

(***************************************************************************)
(* Properties of useSmoothValue.                                           *)
(***************************************************************************)
\* C30: for a target that stays fixed the animation loop of useSmoothValue
\* ends: after finitely many animation frames the smoothed value equals the
\* target exactly and no further frame is requested.
C30_AnimationEnds == (hud.smoothed # hud.value) ~> (hud.smoothed = hud.value)

====
